---- MODULE Spec2Model ----
(***************************************************************************)
(* Model of mcp_pappers/server.py: the MCP tool dispatcher call_tool, the  *)
(* two handlers _search_companies_handler and _get_company_details_handler *)
(* and the upstream client _call_pappers_api.                              *)
(*                                                                         *)
(* A Python str is a sequence of tokens (single characters, or the string  *)
(* literals of the source kept whole); an f-string is the concatenation of *)
(* its parts.  A JSON value is a tagged record [t, v]; a dict is the       *)
(* ordered sequence of its <<key, value>> pairs, as in Python.             *)
(***************************************************************************)
EXTENDS Integers, Sequences, FiniteSets, TLC

\* ------------------------------------------------------------------ bounds
NumCalls == 2
MaxSirenLen == 10
MaxReps == 6
MaxResults == 2

\* ------------------------------------------------------- program constants
SIREN_LEN == 9
MAX_PER_PAGE == 100
DEFAULT_PAGE == 1
DEFAULT_PER_PAGE == 10
MAX_DIRIGEANTS == 5
STATUS_NOT_FOUND == 404

PAPPERS_BASE_URL == "https://api.pappers.fr/v2"

Calls == 1..NumCalls

Min(a, b) == IF a <= b THEN a ELSE b

\* ------------------------------------------------------------ Python str
DigitChars == <<"0", "1", "2", "3", "4", "5", "6", "7", "8", "9">>

AsciiDigits == {DigitChars[i] : i \in 1..10}

\* Characters with the Unicode digit property that are not ASCII digits:
\* ARABIC-INDIC DIGIT THREE and SUPERSCRIPT TWO.
UnicodeDigits == {"U+0663", "U+00B2"}

\* str(n) for an int n
RECURSIVE Str(_)
Str(n) == IF n < 0 THEN <<"-">> \o Str(0 - n)
          ELSE IF n < 10 THEN <<DigitChars[n + 1]>>
          ELSE Str(n \div 10) \o <<DigitChars[(n % 10) + 1]>>

\* whether sub occurs in text as a contiguous run (Python's `sub in text`)
Contains(text, sub) ==
    \E i \in 0..(Len(text) - Len(sub)) :
        \A j \in 1..Len(sub) : text[i + j] = sub[j]

StartsWith(text, prefix) ==
    /\ Len(prefix) <= Len(text)
    /\ \A j \in 1..Len(prefix) : text[j] = prefix[j]

\* ------------------------------------------------------------ JSON values
JNull == [t |-> "null"]
JStr(s) == [t |-> "str", v |-> s]
JInt(n) == [t |-> "int", v |-> n]
JBool(b) == [t |-> "bool", v |-> b]
JList(s) == [t |-> "list", v |-> s]
JObj(pairs) == [t |-> "obj", v |-> pairs]

\* A key an upstream record may leave out (a marker of the enumeration of
\* upstream payloads, never a value inside a payload).
Absent == [t |-> "absent"]

\* the pairs of a dict under construction, leaving out the Absent ones
Field(k, x) == IF x.t = "absent" THEN <<>> ELSE <<<<k, x>>>>

HasKey(d, k) == \E i \in 1..Len(d.v) : d.v[i][1] = k

\* dict.get(k, default)
Get(d, k, default) ==
    IF HasKey(d, k)
    THEN d.v[CHOOSE i \in 1..Len(d.v) : d.v[i][1] = k][2]
    ELSE default

\* Python truth value of a JSON value (the operand of `not`)
Truthy(x) ==
    CASE x.t = "null" -> FALSE
      [] x.t = "bool" -> x.v
      [] x.t = "int"  -> x.v # 0
      [] x.t = "str"  -> Len(x.v) > 0
      [] x.t = "list" -> Len(x.v) > 0
      [] x.t = "obj"  -> Len(x.v) > 0

\* json.dumps(x, ensure_ascii=False, indent=2): the text of x at nesting
\* depth `level`; items on lines of their own, two spaces per level.
RECURSIVE Indent(_)
Indent(level) == IF level = 0 THEN <<>> ELSE <<"  ">> \o Indent(level - 1)

RECURSIVE Dumps(_, _)
RECURSIVE DumpItems(_, _, _)
DumpItems(items, isObj, level) ==
    IF Len(items) = 0 THEN <<>>
    ELSE LET head == items[1]
             one  == IF isObj
                     THEN <<"\"", head[1], "\"", ": ">> \o Dumps(head[2], level)
                     ELSE Dumps(head, level)
             sep  == IF Len(items) = 1 THEN <<>> ELSE <<",">>
         IN  <<"\n">> \o Indent(level) \o one \o sep
             \o DumpItems(Tail(items), isObj, level)

Dumps(x, level) ==
    CASE x.t = "null" -> <<"null">>
      [] x.t = "bool" -> IF x.v THEN <<"true">> ELSE <<"false">>
      [] x.t = "int"  -> Str(x.v)
      [] x.t = "str"  -> <<"\"">> \o x.v \o <<"\"">>
      [] x.t = "list" -> IF Len(x.v) = 0 THEN <<"[]">>
                         ELSE <<"[">> \o DumpItems(x.v, FALSE, level + 1)
                              \o <<"\n">> \o Indent(level) \o <<"]">>
      [] x.t = "obj"  -> IF Len(x.v) = 0 THEN <<"{}">>
                         ELSE <<"{">> \o DumpItems(x.v, TRUE, level + 1)
                              \o <<"\n">> \o Indent(level) \o <<"}">>

\* ------------------------------------------------- results and exceptions
\* The outcome of evaluating Python code: a returned value or a raised
\* exception.  An exception carries its class, str(e) and, for an
\* HTTPStatusError, e.response.status_code and e.response.text.
Ret(v) == [kind |-> "return", val |-> v]

Raise(cls, msg, status, text) ==
    [kind |-> "raise", exc |-> [cls |-> cls, msg |-> msg, status |-> status, text |-> text]]

RaiseOf(e) == [kind |-> "raise", exc |-> e]

TransportErrors == {"ConnectError", "ReadTimeout"}

\* the subclasses of httpx.HTTPError that _call_pappers_api can raise
IsHTTPStatusError(e) == e.cls = "HTTPStatusError"
IsHTTPError(e) == e.cls = "HTTPStatusError" \/ e.cls \in TransportErrors

AttributeError == Raise("AttributeError", <<"object has no attribute 'get'">>, 0, <<>>)
TypeError == Raise("TypeError", <<"object is not iterable or subscriptable">>, 0, <<>>)

\* a list comprehension, from the outcomes of its element expressions in
\* order: the first exception raised, or the list of the values
Collect(outs) ==
    IF \E i \in 1..Len(outs) : outs[i].kind = "raise"
    THEN outs[CHOOSE i \in 1..Len(outs) :
                /\ outs[i].kind = "raise"
                /\ \A j \in 1..(i - 1) : outs[j].kind = "return"]
    ELSE Ret([i \in 1..Len(outs) |-> outs[i].val])

\* `for c in x`: the elements iterated, or the exception of iter(x)
Iterate(x) ==
    CASE x.t = "list" -> Ret(x.v)
      [] x.t = "str"  -> Ret([i \in 1..Len(x.v) |-> JStr(<<x.v[i]>>)])
      [] x.t = "obj"  -> Ret([i \in 1..Len(x.v) |-> JStr(<<x.v[i][1]>>)])
      [] OTHER        -> TypeError

\* ------------------------------------------------------- upstream client
\* An upstream response body: a JSON document, or text that is not JSON.
JsonBody(doc) == [t |-> "json", v |-> doc]
RawBody(text) == [t |-> "raw", v |-> text]

\* response.text
ResponseText(body) == IF body.t = "raw" THEN body.v ELSE Dumps(body.v, 0)

\* What the awaited client.get produced: a response, or a transport error.
HttpResponse(status, body) == [kind |-> "response", status |-> status, body |-> body]
TransportFailure(cls, msg) == [kind |-> "transport", cls |-> cls, msg |-> msg]

IsSuccess(status) == 200 <= status /\ status <= 299

\* url = f"{PAPPERS_BASE_URL}/{endpoint}"
Url(endpoint) == <<PAPPERS_BASE_URL, "/", endpoint>>

\* The percent-encoding of one character of a query parameter: letters and
\* ASCII digits stand for themselves, other characters by their UTF-8 bytes.
PercentEncode(ch) ==
    CASE ch = "U+0663" -> "%D9%A3"
      [] ch = "U+00B2" -> "%C2%B2"
      [] ch = " "      -> "%20"
      [] OTHER         -> ch

RECURSIVE QueryString(_)
QueryString(pairs) ==
    IF Len(pairs) = 0 THEN <<>>
    ELSE LET x == pairs[1][2]
             val == IF x.t = "int" THEN Str(x.v)
                    ELSE [i \in 1..Len(x.v) |-> PercentEncode(x.v[i])]
         IN  <<pairs[1][1], "=">> \o val
             \o (IF Len(pairs) = 1 THEN <<>> ELSE <<"&">>)
             \o QueryString(Tail(pairs))

\* the URL of the request client.get(url, params=params) sends
RequestUrl(endpoint, params) == Url(endpoint) \o <<"?">> \o QueryString(params.v)

ReasonPhrase(status) ==
    CASE status = 301 -> "Moved Permanently"
      [] status = 404 -> "Not Found"
      [] status = 429 -> "Too Many Requests"
      [] status = 500 -> "Internal Server Error"
      [] OTHER        -> ""

\* str(e) of the HTTPStatusError raised by response.raise_for_status():
\* error type, status code, reason phrase and URL; the response body is
\* not part of it.
StatusErrorMessage(status, url) ==
    <<(IF status < 400 THEN "Redirect response"
       ELSE IF status < 500 THEN "Client error" ELSE "Server error"), " '">>
    \o Str(status) \o <<" ", ReasonPhrase(status), "' for url '">> \o url
    \o <<"'\nFor more information check: https://developer.mozilla.org/en-US/docs/Web/HTTP/Status/">>
    \o Str(status)

\* response.raise_for_status(); return response.json()
ApiReturn(outcome, url) ==
    IF outcome.kind = "transport"
    THEN Raise(outcome.cls, outcome.msg, 0, <<>>)
    ELSE IF ~IsSuccess(outcome.status)
    THEN Raise("HTTPStatusError", StatusErrorMessage(outcome.status, url),
               outcome.status, ResponseText(outcome.body))
    ELSE IF outcome.body.t = "raw"
    THEN Raise("JSONDecodeError", <<"Expecting value">>, 0, <<>>)
    ELSE Ret(outcome.body.v)

\* ------------------------------------------ _search_companies_handler
\* a variant that forwards per_page as asked
ParPageUnclamped(per_page) == per_page

\* "par_page": min(per_page, 100)
ParPage(per_page) == Min(per_page, MAX_PER_PAGE)

SearchParams(query, page, per_page) ==
    JObj(<< <<"q", JStr(query)>>,
            <<"page", JInt(page)>>,
            <<"par_page", JInt(ParPage(per_page))>> >>)

\* a variant with the two labels swapped
StatutInverted(c) ==
    IF Truthy(Get(c, "entreprise_cessee", JNull)) THEN JStr(<<"actif">>) ELSE JStr(<<"cessée">>)

\* "statut": "actif" if not c.get("entreprise_cessee") else "cessée"
Statut(c) ==
    IF ~Truthy(Get(c, "entreprise_cessee", JNull)) THEN JStr(<<"actif">>) ELSE JStr(<<"cessée">>)

\* one entry of "companies": c.get(...) needs c to be a dict, and
\* c.get("siege", {}).get(...) needs the value of "siege" to be one
Company(c) ==
    IF c.t # "obj" THEN AttributeError
    ELSE LET siege == Get(c, "siege", JObj(<<>>))
         IN  IF siege.t # "obj" THEN AttributeError
             ELSE Ret(JObj(<<
                 <<"siren", Get(c, "siren", JNull)>>,
                 <<"denomination", Get(c, "nom_entreprise", JNull)>>,
                 <<"siege", JObj(<<
                     <<"adresse", Get(siege, "adresse_ligne_1", JNull)>>,
                     <<"code_postal", Get(siege, "code_postal", JNull)>>,
                     <<"ville", Get(siege, "ville", JNull)>> >>)>>,
                 <<"date_creation", Get(c, "date_creation", JNull)>>,
                 <<"statut", Statut(c)>> >>))

\* the dict `formatted` built from the upstream JSON `result`
FormatSearch(result, page, per_page) ==
    IF result.t # "obj" THEN AttributeError
    ELSE LET total == Get(result, "total", JInt(0))
             companies == Iterate(Get(result, "resultats", JList(<<>>)))
         IN  IF companies.kind = "raise" THEN companies
             ELSE LET entries == Collect([i \in 1..Len(companies.val) |-> Company(companies.val[i])])
                  IN  IF entries.kind = "raise" THEN entries
                      ELSE Ret(JObj(<<
                          <<"total", total>>,
                          <<"page", JInt(page)>>,
                          <<"per_page", JInt(per_page)>>,
                          <<"companies", JList(entries.val)>> >>))

\* except httpx.HTTPError as e: return f"Error calling Pappers API: {str(e)}"
SearchExcept(e) ==
    IF IsHTTPError(e) THEN Ret(<<"Error calling Pappers API: ">> \o e.msg)
    ELSE RaiseOf(e)

\* The handler from the return of _call_pappers_api on: [formatted, out],
\* out the returned text or the exception that leaves the handler.
SearchFinish(api, page, per_page) ==
    IF api.kind = "raise" THEN [formatted |-> JNull, out |-> SearchExcept(api.exc)]
    ELSE LET f == FormatSearch(api.val, page, per_page)
         IN  IF f.kind = "raise" THEN [formatted |-> JNull, out |-> f]
             ELSE [formatted |-> f.val, out |-> Ret(Dumps(f.val, 0))]

\* ---------------------------------------- _get_company_details_handler
\* str.isdigit(): non-empty, and every character has the Unicode digit
\* property (the ASCII digits are not the only such characters)
IsDigit(siren) ==
    /\ Len(siren) > 0
    /\ \A i \in 1..Len(siren) : siren[i] \in AsciiDigits \cup UnicodeDigits

\* the guard of line 94 negated: siren.isdigit() and len(siren) == 9
PassesValidation(siren) == IsDigit(siren) /\ Len(siren) = SIREN_LEN

\* the inputSchema pattern ^[0-9]{9}$
MatchesPattern(siren) ==
    /\ Len(siren) = SIREN_LEN
    /\ \A i \in 1..Len(siren) : siren[i] \in AsciiDigits

InvalidSirenText(siren) == <<"Invalid SIREN format. Must be 9 digits, got: ">> \o siren

DetailsParams(siren) == JObj(<< <<"siren", JStr(siren)>> >>)

\* a variant without the slice
FirstFiveUnsliced(reps) == reps

\* result.get("representants", [])[:5]
FirstFive(reps) == SubSeq(reps, 1, Min(Len(reps), MAX_DIRIGEANTS))

\* the slice x[:5] of a JSON value: a list or a str can be sliced
Slice(x) ==
    CASE x.t = "list" -> Ret(JList(FirstFive(x.v)))
      [] x.t = "str"  -> Ret(JStr(FirstFive(x.v)))
      [] OTHER        -> TypeError

\* one entry of "dirigeants"
Dirigeant(d) ==
    IF d.t # "obj" THEN AttributeError
    ELSE Ret(JObj(<<
        <<"nom", Get(d, "nom", JNull)>>,
        <<"prenom", Get(d, "prenom", JNull)>>,
        <<"qualite", Get(d, "qualite", JNull)>>,
        <<"date_prise_de_poste", Get(d, "date_prise_de_poste", JNull)>> >>))

\* the dict `formatted` built from the upstream JSON `result`
FormatDetails(result) ==
    IF result.t # "obj" THEN AttributeError
    ELSE LET siege == Get(result, "siege", JObj(<<>>))
             sliced == Slice(Get(result, "representants", JList(<<>>)))
         IN  IF siege.t # "obj" THEN AttributeError
             ELSE IF sliced.kind = "raise" THEN sliced
             ELSE LET reps == Iterate(sliced.val)
                      dirigeants == Collect([i \in 1..Len(reps.val) |-> Dirigeant(reps.val[i])])
                  IN  IF dirigeants.kind = "raise" THEN dirigeants
                      ELSE Ret(JObj(<<
                          <<"siren", Get(result, "siren", JNull)>>,
                          <<"denomination", Get(result, "nom_entreprise", JNull)>>,
                          <<"forme_juridique", Get(result, "forme_juridique", JNull)>>,
                          <<"date_creation", Get(result, "date_creation", JNull)>>,
                          <<"statut_rcs", Get(result, "statut_rcs", JNull)>>,
                          <<"entreprise_cessee", Get(result, "entreprise_cessee", JNull)>>,
                          <<"capital", Get(result, "capital", JNull)>>,
                          <<"chiffre_affaires", Get(result, "derniers_chiffres_affaires", JNull)>>,
                          <<"resultat", Get(result, "derniers_resultats", JNull)>>,
                          <<"siege", JObj(<<
                              <<"adresse", Get(siege, "adresse_ligne_1", JNull)>>,
                              <<"complement", Get(siege, "adresse_ligne_2", JNull)>>,
                              <<"code_postal", Get(siege, "code_postal", JNull)>>,
                              <<"ville", Get(siege, "ville", JNull)>>,
                              <<"pays", Get(siege, "pays", JNull)>> >>)>>,
                          <<"code_naf", Get(result, "code_naf", JNull)>>,
                          <<"libelle_code_naf", Get(result, "libelle_code_naf", JNull)>>,
                          <<"dirigeants", JList(dirigeants.val)>>,
                          <<"nombre_etablissements", Get(result, "nombre_etablissements", JNull)>> >>))

NotFoundText(siren) == <<"Company not found with SIREN: ">> \o siren

ApiErrorText(status, text) == <<"API error (">> \o Str(status) \o <<"): ">> \o text

TransportErrorText(msg) == <<"Error calling Pappers API: ">> \o msg

\* a variant without the 404 branch
DetailsExceptNo404(siren, e) ==
    IF IsHTTPStatusError(e) THEN Ret(ApiErrorText(e.status, e.text))
    ELSE IF IsHTTPError(e) THEN Ret(TransportErrorText(e.msg))
    ELSE RaiseOf(e)

\* except httpx.HTTPStatusError as e: 404 or another status;
\* except httpx.HTTPError as e: any other failure of the request
DetailsExcept(siren, e) ==
    IF IsHTTPStatusError(e)
    THEN IF e.status = STATUS_NOT_FOUND
         THEN Ret(NotFoundText(siren))
         ELSE Ret(ApiErrorText(e.status, e.text))
    ELSE IF IsHTTPError(e) THEN Ret(TransportErrorText(e.msg))
    ELSE RaiseOf(e)

\* The handler from the return of _call_pappers_api on.
DetailsFinish(api, siren) ==
    IF api.kind = "raise" THEN [formatted |-> JNull, out |-> DetailsExcept(siren, api.exc)]
    ELSE LET f == FormatDetails(api.val)
         IN  IF f.kind = "raise" THEN [formatted |-> JNull, out |-> f]
             ELSE [formatted |-> f.val, out |-> Ret(Dumps(f.val, 0))]

\* ------------------------------------------------------------------ state
VARIABLES
    pc,          \* pc[c]: where tool call c stands: "idle", "awaiting" (suspended in
                 \* `await client.get`), "closing" (leaving the `async with`),
                 \* "returned" or "raised"
    request,     \* request[c]: the name and arguments call_tool was invoked with
    client,      \* client[c]: the httpx.AsyncClient call c opened, 0 when none
    openClients, \* the clients opened and not yet closed
    created,     \* how many clients have been constructed
    sent,        \* sent[c]: the GET requests call c issued, in order
    response,    \* response[c]: what the awaited client.get produced
    api,         \* api[c]: the return value or exception of _call_pappers_api
    formatted,   \* formatted[c]: the dict the handler serialises, JNull when none
    result       \* result[c]: what call_tool returned or raised

vars == <<pc, request, client, openClients, created, sent, response, api, formatted, result>>

NoRequest == [name |-> "", arguments |-> JObj(<<>>)]
NoResponse == [kind |-> "none"]
NoResult == [kind |-> "none"]

Init ==
    /\ pc = [c \in Calls |-> "idle"]
    /\ request = [c \in Calls |-> NoRequest]
    /\ client = [c \in Calls |-> 0]
    /\ openClients = {}
    /\ created = 0
    /\ sent = [c \in Calls |-> <<>>]
    /\ response = [c \in Calls |-> NoResponse]
    /\ api = [c \in Calls |-> NoResult]
    /\ formatted = [c \in Calls |-> JNull]
    /\ result = [c \in Calls |-> NoResult]

TextContent(text) == [type |-> "text", text |-> text]

\* httpx.AsyncClient(): every construction yields a new object
NewClient(n) == n + 1

\* a variant that closes the client only when the body returned
AExitOnReturnOnly(open, cl, outcome) ==
    IF outcome.kind = "return" THEN open \ {cl} ELSE open

\* `async with httpx.AsyncClient() as client` on exit: __aexit__ closes the
\* client whether the body returned or raised
AExit(open, cl, outcome) == open \ {cl}

\* the requests the body of _call_pappers_api issues: one client.get
Gets(cl, endpoint, params) ==
    <<[client |-> cl, endpoint |-> endpoint, params |-> params]>>

\* _call_pappers_api up to its suspension in `await client.get(...)`
CallPappersApi(c, endpoint, params) ==
    LET cl == NewClient(created)
    IN  /\ created' = created + 1
        /\ client' = [client EXCEPT ![c] = cl]
        /\ openClients' = openClients \cup {cl}
        /\ sent' = [sent EXCEPT ![c] = @ \o Gets(cl, endpoint, params)]
        /\ pc' = [pc EXCEPT ![c] = "awaiting"]

\* call_tool, name == "search_companies": arguments["query"],
\* arguments.get("page", 1), arguments.get("per_page", 10)
Page(arguments) == Get(arguments, "page", JInt(DEFAULT_PAGE)).v
PerPage(arguments) == Get(arguments, "per_page", JInt(DEFAULT_PER_PAGE)).v

SearchCompanies(c, arguments) ==
    /\ pc[c] = "idle"
    /\ request' = [request EXCEPT ![c] = [name |-> "search_companies", arguments |-> arguments]]
    /\ CallPappersApi(c, "recherche",
                      SearchParams(Get(arguments, "query", JNull).v, Page(arguments), PerPage(arguments)))
    /\ UNCHANGED <<response, api, formatted, result>>

\* call_tool, name == "get_company_details": the handler returns the
\* invalid-format text before any upstream call, or calls the upstream
GetCompanyDetails(c, arguments) ==
    LET siren == Get(arguments, "siren", JNull).v
    IN  /\ pc[c] = "idle"
        /\ request' = [request EXCEPT ![c] = [name |-> "get_company_details", arguments |-> arguments]]
        /\ IF ~PassesValidation(siren)
           THEN /\ result' = [result EXCEPT ![c] = Ret(<<TextContent(InvalidSirenText(siren))>>)]
                /\ pc' = [pc EXCEPT ![c] = "returned"]
                /\ UNCHANGED <<client, openClients, created, sent>>
           ELSE /\ CallPappersApi(c, "entreprise", DetailsParams(siren))
                /\ UNCHANGED result
        /\ UNCHANGED <<response, api, formatted>>

\* call_tool, else: raise ValueError(f"Unknown tool: {name}")
UnknownTool(c, name, arguments) ==
    /\ pc[c] = "idle"
    /\ name \notin {"search_companies", "get_company_details"}
    /\ request' = [request EXCEPT ![c] = [name |-> name, arguments |-> arguments]]
    /\ result' = [result EXCEPT ![c] = Raise("ValueError", <<"Unknown tool: ", name>>, 0, <<>>)]
    /\ pc' = [pc EXCEPT ![c] = "raised"]
    /\ UNCHANGED <<client, openClients, created, sent, response, api, formatted>>

\* The awaited client.get completes with `outcome`; raise_for_status() and
\* response.json() run, and the call is about to leave the `async with`.
Respond(c, outcome) ==
    /\ pc[c] = "awaiting"
    /\ response' = [response EXCEPT ![c] = outcome]
    /\ api' = [api EXCEPT ![c] =
                 ApiReturn(outcome, RequestUrl(sent[c][Len(sent[c])].endpoint,
                                               sent[c][Len(sent[c])].params))]
    /\ pc' = [pc EXCEPT ![c] = "closing"]
    /\ UNCHANGED <<request, client, openClients, created, sent, formatted, result>>

\* the handler of request r from the return of _call_pappers_api on
Finish(r, a) ==
    IF r.name = "search_companies"
    THEN SearchFinish(a, Page(r.arguments), PerPage(r.arguments))
    ELSE DetailsFinish(a, Get(r.arguments, "siren", JNull).v)

\* __aexit__ closes the client; the handler formats the result or handles
\* the exception; call_tool wraps the text in one TextContent, or the
\* exception leaves call_tool.
CloseClient(c) ==
    LET fin == Finish(request[c], api[c])
    IN  /\ pc[c] = "closing"
        /\ openClients' = AExit(openClients, client[c], api[c])
        /\ formatted' = [formatted EXCEPT ![c] = fin.formatted]
        /\ result' = [result EXCEPT ![c] =
                        IF fin.out.kind = "return"
                        THEN Ret(<<TextContent(fin.out.val)>>)
                        ELSE fin.out]
        /\ pc' = [pc EXCEPT ![c] = IF fin.out.kind = "return" THEN "returned" ELSE "raised"]
        /\ UNCHANGED <<request, client, created, sent, response, api>>

\* ----------------------------------------------------------------- inputs
\* SIREN arguments: every length up to MaxSirenLen, one character repeated
\* with at most one position holding another.
SirenAlphabet == {"0", "7", "a", " ", "U+0663"}

Sirens ==
    {[i \in 1..n |-> IF i = k THEN x ELSE y] :
        n \in 0..MaxSirenLen, k \in 0..MaxSirenLen, x \in SirenAlphabet, y \in SirenAlphabet}

DetailsArguments == {JObj(<< <<"siren", JStr(s)>> >>) : s \in Sirens}

Queries == {<<"G", "o", "o", "g", "l", "e">>, <<"S", "N", "C", "F">>}
Pages == {Absent, JInt(2)}
PerPages == {Absent, JInt(0), JInt(100), JInt(101), JInt(500)}

SearchArguments ==
    {JObj(<< <<"query", JStr(q)>> >> \o Field("page", p) \o Field("per_page", pp)) :
        q \in Queries, p \in Pages, pp \in PerPages}

UnknownNames == {"delete_company", ""}

\* upstream answers
FullSiege ==
    JObj(<< <<"adresse_ligne_1", JStr(<<"8 RUE DE LONDRES">>)>>,
            <<"adresse_ligne_2", JNull>>,
            <<"code_postal", JStr(<<"75009">>)>>,
            <<"ville", JStr(<<"PARIS">>)>>,
            <<"pays", JStr(<<"France">>)>> >>)

SiegeOptions == {Absent, JNull, JObj(<<>>), FullSiege}
CesseeOptions == {Absent, JNull, JBool(FALSE), JBool(TRUE)}

SearchElement(siege, cessee) ==
    JObj(<< <<"siren", JStr(<<"443061841">>)>>, <<"nom_entreprise", JStr(<<"GOOGLE FRANCE">>)>> >>
         \o Field("siege", siege) \o Field("entreprise_cessee", cessee))

SearchElements == {SearchElement(sg, ce) : sg \in {Absent, FullSiege}, ce \in CesseeOptions}

\* elements whose "siege" is null or empty, or with values of other JSON
\* types where a dict or a bool is expected
OddElements ==
    {SearchElement(JNull, JBool(FALSE)),
     SearchElement(JNull, JBool(TRUE)),
     SearchElement(JStr(<<"PARIS">>), JBool(FALSE)),
     SearchElement(JObj(<<>>), JInt(0)),
     SearchElement(FullSiege, JInt(1)),
     SearchElement(FullSiege, JStr(<<>>))}

RECURSIVE SeqsUpTo(_, _)
SeqsUpTo(S, n) ==
    IF n = 0 THEN {<<>>}
    ELSE LET shorter == SeqsUpTo(S, n - 1)
         IN  shorter \cup {Append(q, x) : q \in shorter, x \in S}

ResultLists == SeqsUpTo(SearchElements, MaxResults) \cup {<<x>> : x \in OddElements}

SearchPayloads ==
    {JObj(Field("total", tot) \o Field("resultats", res)) :
        tot \in {Absent, JInt(1)},
        res \in {Absent, JNull} \cup {JList(l) : l \in ResultLists}}

\* the i-th representative of a record: distinct names, some fields left out
Representant(i) ==
    JObj(<< <<"nom", JStr(<<"NOM">> \o Str(i))>> >>
         \o (IF i % 2 = 0 THEN <<>> ELSE << <<"prenom", JStr(<<"Anne">>)>> >>)
         \o << <<"qualite", JStr(<<"Gerant">>)>>, <<"age", JInt(40 + i)>> >>)

RepresentantsOptions ==
    {Absent, JNull} \cup {JList([i \in 1..n |-> Representant(i)]) : n \in 0..MaxReps}

DetailsPayloads ==
    {JObj(<< <<"siren", JStr(<<"443061841">>)>>, <<"entreprise_cessee", JBool(FALSE)>> >>
          \o Field("siege", sg) \o Field("representants", reps)) :
        sg \in SiegeOptions \cup {JStr(<<"PARIS">>)}, reps \in RepresentantsOptions}

ErrorStatuses == {301, 404, 429, 500}

ErrorBodies ==
    {RawBody(<<>>), RawBody(<<"b", "o", "o", "m">>),
     JsonBody(JObj(<< <<"error", JStr(<<"quota">>)>> >>))}

Failures ==
    {HttpResponse(st, b) : st \in ErrorStatuses, b \in ErrorBodies}
    \cup {TransportFailure("ConnectError", <<"All connection attempts failed">>),
          TransportFailure("ReadTimeout", <<>>)}
    \cup {HttpResponse(200, RawBody(<<"<html>">>)), HttpResponse(200, JsonBody(JList(<<>>)))}

SearchOutcomes == Failures \cup {HttpResponse(200, JsonBody(d)) : d \in SearchPayloads}
DetailsOutcomes == Failures \cup {HttpResponse(200, JsonBody(d)) : d \in DetailsPayloads}

Outcomes(name) == IF name = "search_companies" THEN SearchOutcomes ELSE DetailsOutcomes

\* ----------------------------------------------------------- specification
\* One tool call, over all the inputs and upstream answers above.
Next ==
    \/ \E a \in SearchArguments : SearchCompanies(1, a)
    \/ \E a \in DetailsArguments : GetCompanyDetails(1, a)
    \/ \E n \in UnknownNames : UnknownTool(1, n, JObj(<<>>))
    \/ \E o \in Outcomes(request[1].name) : Respond(1, o)
    \/ CloseClient(1)

Spec == Init /\ [][Next]_vars

\* NumCalls concurrent tool calls, over representative inputs and answers.
ConcSearchArguments == {JObj(<< <<"query", JStr(<<"S", "N", "C", "F">>)>>, <<"per_page", JInt(500)>> >>)}

ConcDetailsArguments ==
    {JObj(<< <<"siren", JStr([i \in 1..SIREN_LEN |-> "7"])>> >>),
     JObj(<< <<"siren", JStr(<<"a">>)>> >>)}

ConcOutcomes(name) ==
    {HttpResponse(404, RawBody(<<>>)),
     HttpResponse(500, RawBody(<<"b", "o", "o", "m">>)),
     TransportFailure("ReadTimeout", <<>>),
     HttpResponse(200, RawBody(<<"<html>">>)),
     HttpResponse(200, JsonBody(
         IF name = "search_companies"
         THEN JObj(<< <<"total", JInt(1)>>,
                      <<"resultats", JList(<<SearchElement(FullSiege, JBool(FALSE))>>)>> >>)
         ELSE JObj(<< <<"siren", JStr(<<"443061841">>)>>, <<"siege", FullSiege>> >>)))}

NextConc ==
    \E c \in Calls :
        \/ \E a \in ConcSearchArguments : SearchCompanies(c, a)
        \/ \E a \in ConcDetailsArguments : GetCompanyDetails(c, a)
        \/ UnknownTool(c, "delete_company", JObj(<<>>))
        \/ \E o \in ConcOutcomes(request[c].name) : Respond(c, o)
        \/ CloseClient(c)

SpecConc == Init /\ [][NextConc]_vars

\* ------------------------------------------------------------- properties
Registered == {"search_companies", "get_company_details"}
Finished(c) == pc[c] \in {"returned", "raised"}
IsSearch(c) == request[c].name = "search_companies"
IsDetails(c) == request[c].name = "get_company_details"
Siren(c) == Get(request[c].arguments, "siren", JNull).v

\* call c returned exactly one text item holding `text`
ReturnedText(c, text) ==
    /\ pc[c] = "returned"
    /\ result[c] = Ret(<<[type |-> "text", text |-> text]>>)

\* the text of the item call c returned (for a call that returned)
TextOf(c) == result[c].val[1].text

\* the upstream answered call c with an HTTP response
Answered(c) == Finished(c) /\ response[c].kind = "response"
ErrorStatus(c) == Answered(c) /\ ~(response[c].status \in 200..299)

\* the upstream answered call c with a 2xx response holding a JSON object
Payload(c) == response[c].body.v
HasPayload(c) ==
    /\ Answered(c) /\ response[c].status \in 200..299
    /\ response[c].body.t = "json" /\ Payload(c).t = "obj"

\* C1: a get_company_details call whose siren does not match ^[0-9]{9}$
\* returns exactly 'Invalid SIREN format. Must be 9 digits, got: <siren>'
\* and issues no upstream request.
C1_InvalidSirenRejected ==
    \A c \in Calls :
        (IsDetails(c) /\ ~MatchesPattern(Siren(c)))
            => /\ sent[c] = <<>>
               /\ ReturnedText(c, <<"Invalid SIREN format. Must be 9 digits, got: ">> \o Siren(c))

\* C2: the par_page sent upstream by a search_companies call is the
\* requested per_page when that is at most 100 and 100 otherwise, so never
\* above 100; q and page are the caller's query and page.
C2_ParPageClamped ==
    \A c \in Calls : \A i \in 1..Len(sent[c]) :
        IsSearch(c) =>
            LET p == sent[c][i].params
                asked == Get(request[c].arguments, "per_page", JInt(10)).v
            IN  /\ sent[c][i].endpoint = "recherche"
                /\ Get(p, "par_page", JNull).t = "int"
                /\ Get(p, "par_page", JNull).v <= 100
                /\ asked <= 100 => Get(p, "par_page", JNull).v = asked
                /\ asked > 100 => Get(p, "par_page", JNull).v = 100
                /\ Get(p, "q", JNull) = Get(request[c].arguments, "query", JNull)
                /\ Get(p, "page", JNull) = Get(request[c].arguments, "page", JInt(1))

C2_Witness ==
    \E c \in Calls :
        /\ IsSearch(c) /\ Len(sent[c]) = 1
        /\ Get(request[c].arguments, "per_page", JInt(10)).v = 500
        /\ Get(sent[c][1].params, "par_page", JNull).v = 100

\* C3: a get_company_details call that reached the upstream returns exactly
\* 'Company not found with SIREN: <siren>' when the upstream answered 404,
\* exactly 'API error (<status>): <body>' when it answered another non-2xx
\* status, and neither text after any other outcome.
C3_LookupErrorTexts ==
    \A c \in Calls :
        (IsDetails(c) /\ Finished(c) /\ response[c].kind # "none") =>
            LET notFound == <<"Company not found with SIREN: ">> \o Siren(c)
                is404 == ErrorStatus(c) /\ response[c].status = 404
                isOther == ErrorStatus(c) /\ response[c].status # 404
            IN  /\ is404 => ReturnedText(c, notFound)
                /\ isOther => ReturnedText(c, <<"API error (">> \o Str(response[c].status)
                                                \o <<"): ">> \o ResponseText(response[c].body))
                /\ (pc[c] = "returned" /\ TextOf(c) = notFound) => is404
                /\ (pc[c] = "returned" /\ StartsWith(TextOf(c), <<"API error (">>)) => isOther

C3_Witness ==
    \E c \in Calls :
        /\ IsDetails(c) /\ MatchesPattern(Siren(c))
        /\ ErrorStatus(c) /\ response[c].status = 404
        /\ ReturnedText(c, <<"Company not found with SIREN: ">> \o Siren(c))

\* C4: for both tools, after a non-2xx answer other than 404 the call
\* returns a text that includes the status code and the response body.
C4_ErrorTextHasStatusAndBody ==
    \A c \in Calls :
        (ErrorStatus(c) /\ response[c].status # 404) =>
            /\ pc[c] = "returned"
            /\ Contains(TextOf(c), Str(response[c].status))
            /\ Contains(TextOf(c), ResponseText(response[c].body))

\* C5: call_tool raises only for an unregistered tool name, and then no
\* upstream request was issued; for a registered tool a malformed SIREN, a
\* 404, another non-2xx status and a transport failure all end in a normal
\* result of exactly one text item.
C5_RaisesOnlyForUnknownTool ==
    \A c \in Calls :
        /\ pc[c] = "raised" => (request[c].name \notin Registered /\ sent[c] = <<>>)
        /\ (/\ Finished(c) /\ request[c].name \in Registered
            /\ \/ IsDetails(c) /\ ~MatchesPattern(Siren(c))
               \/ ErrorStatus(c)
               \/ response[c].kind = "transport")
           => /\ result[c].kind = "return"
              /\ Len(result[c].val) = 1
              /\ result[c].val[1].type = "text"

\* C6: when get_company_details formats a successful answer, "dirigeants"
\* holds the first min(5, n) of the n upstream "representants", projected
\* entry by entry in upstream order (none when the field is absent), never
\* more than 5, and the returned text is the serialisation of that output.
C6_DirigeantsFirstFive ==
    \A c \in Calls :
        (IsDetails(c) /\ pc[c] = "returned" /\ HasPayload(c)) =>
            LET reps == Get(Payload(c), "representants", JList(<<>>)).v
                dirs == Get(formatted[c], "dirigeants", JNull)
            IN  /\ dirs.t = "list"
                /\ Len(dirs.v) <= 5
                /\ Len(dirs.v) = (IF Len(reps) < 5 THEN Len(reps) ELSE 5)
                /\ \A i \in 1..Len(dirs.v) :
                       \A k \in {"nom", "prenom", "qualite", "date_prise_de_poste"} :
                           Get(dirs.v[i], k, Absent) = Get(reps[i], k, JNull)
                /\ TextOf(c) = Dumps(formatted[c], 0)

C6_Witness ==
    \E c \in Calls :
        /\ IsDetails(c) /\ pc[c] = "returned" /\ HasPayload(c)
        /\ Get(Payload(c), "representants", JNull).t = "list"
        /\ Len(Get(Payload(c), "representants", JNull).v) > 5
        /\ Len(Get(formatted[c], "dirigeants", JNull).v) = 5

\* a record without a usable nested "siege" object: the key is absent or
\* its value is not an object
NoUsableSiege(rec) == Get(rec, "siege", JNull).t # "obj"

AllNull(obj, keys) ==
    /\ obj.t = "obj"
    /\ {obj.v[i][1] : i \in 1..Len(obj.v)} = keys
    /\ \A i \in 1..Len(obj.v) : obj.v[i][2] = JNull

\* C7: a lookup answer, or a search result element, without a usable
\* "siege" object is still formatted, with a "siege" key whose sub-fields
\* are all null; the call does not fail.
C7_MissingSiegeAllNull ==
    \A c \in Calls :
        /\ (IsDetails(c) /\ HasPayload(c) /\ NoUsableSiege(Payload(c))
            /\ Get(Payload(c), "representants", JList(<<>>)).t = "list")
           => /\ pc[c] = "returned"
              /\ AllNull(Get(formatted[c], "siege", JNull),
                         {"adresse", "complement", "code_postal", "ville", "pays"})
        /\ (IsSearch(c) /\ HasPayload(c)
            /\ Get(Payload(c), "resultats", JList(<<>>)).t = "list")
           => LET res == Get(Payload(c), "resultats", JList(<<>>)).v
              IN  \A i \in 1..Len(res) :
                      NoUsableSiege(res[i]) =>
                          /\ pc[c] = "returned"
                          /\ AllNull(Get(Get(formatted[c], "companies", JNull).v[i], "siege", JNull),
                                     {"adresse", "code_postal", "ville"})

\* C8: when search_companies formats a successful answer, "companies" has
\* one entry per element of the upstream "resultats", in the same order,
\* and each entry's "statut" is the cessation label when the element's
\* "entreprise_cessee" is truthy and the active label otherwise.
C8_StatutAndOrder ==
    \A c \in Calls :
        (IsSearch(c) /\ pc[c] = "returned" /\ HasPayload(c)) =>
            LET res == Get(Payload(c), "resultats", JList(<<>>)).v
                comps == Get(formatted[c], "companies", JNull)
            IN  /\ comps.t = "list"
                /\ Len(comps.v) = Len(res)
                /\ \A i \in 1..Len(res) :
                       LET flag == Get(res[i], "entreprise_cessee", JNull)
                           ceased == \/ flag.t = "bool" /\ flag.v
                                     \/ flag.t = "int" /\ flag.v # 0
                                     \/ flag.t = "str" /\ flag.v # <<>>
                       IN  /\ Get(comps.v[i], "statut", JNull)
                                = [t |-> "str", v |-> IF ceased THEN <<"cessée">> ELSE <<"actif">>]
                           /\ Get(comps.v[i], "siren", Absent) = Get(res[i], "siren", JNull)
                /\ TextOf(c) = Dumps(formatted[c], 0)

C8_Witness ==
    \E c \in Calls :
        /\ IsSearch(c) /\ pc[c] = "returned" /\ HasPayload(c)
        /\ LET comps == Get(formatted[c], "companies", JNull).v
           IN  /\ Len(comps) = 2
               /\ Get(comps[1], "statut", JNull).v = <<"cessée">>
               /\ Get(comps[2], "statut", JNull).v = <<"actif">>

\* C9: a tool call issues at most one upstream GET: exactly one for
\* search_companies and for get_company_details with a SIREN of 9 ASCII
\* digits, none for any other SIREN or an unknown tool; a finished call
\* issues no further request.
C9_AtMostOneGet ==
    \A c \in Calls :
        /\ Len(sent[c]) <= 1
        /\ request[c].name # "" =>
              Len(sent[c]) = (IF IsSearch(c) \/ (IsDetails(c) /\ MatchesPattern(Siren(c)))
                              THEN 1 ELSE 0)

\* What does hold of the requests: never more than one for a call.
AtMostOneGet == \A c \in Calls : Len(sent[c]) <= 1

\* C10: under any interleaving, a call that contacts the upstream does so
\* through a client of its own that is open while the call uses it; no
\* client belongs to two calls; a finished call has closed its client
\* whatever the outcome, so when all calls have finished none is open.
C10_ClientPerCallClosed ==
    /\ \A c \in Calls :
          /\ sent[c] # <<>> => client[c] # 0
          /\ \A i \in 1..Len(sent[c]) : sent[c][i].client = client[c]
          /\ pc[c] \in {"awaiting", "closing"} => client[c] \in openClients
          /\ Finished(c) => client[c] \notin openClients
    /\ \A c1 \in Calls : \A c2 \in Calls \ {c1} :
          client[c1] # 0 => client[c1] # client[c2]
    /\ openClients \subseteq {client[c] : c \in Calls}
    /\ (\A c \in Calls : Finished(c)) => openClients = {}

C10_Witness ==
    /\ \A c \in Calls : Finished(c)
    /\ \E c1 \in Calls : \E c2 \in Calls \ {c1} :
          /\ api[c1].kind = "return" /\ client[c1] # 0
          /\ api[c2].kind = "raise" /\ client[c2] # 0
    /\ openClients = {}

====
